---- MODULE Spec2Model ----
(***************************************************************************)
(* The per-request facade KnorkRequest and its private state Impl:         *)
(* memoized accessors, the body gate (raw / pipe against body) and the     *)
(* body collection sink piped from the incoming request stream.            *)
(*                                                                         *)
(* JavaScript runs one handler at a time, so every action below is one     *)
(* synchronous call made by handler code (body, the function body returns, *)
(* raw, pipe) or one event-loop callback (a 'data' event, the 'end' event, *)
(* a setImmediate callback).                                               *)
(*                                                                         *)
(* AccSpec and MemoSpec run the accessors of one request (correlation ID,  *)
(* parsed URL, negotiator), IsoSpec those of two requests that share the   *)
(* ID scratch buffer, and TxSpec the transaction middleware's processView. *)
(***************************************************************************)
EXTENDS Integers, Sequences, FiniteSets, TLC

\* ------------------------------------------------------------------ bounds
\* Longest request body, in bytes.
MaxBodyLen == 3
\* Largest configured server.opts.maxBodySize.
MaxCeiling == 3
\* Most Error objects the raw getter creates in one behaviour.
MaxErrors == 2
\* Most promises created in one behaviour.
MaxPromises == 2
\* Most objects url.parse and accepts create in one behaviour.
MaxObjects == 4
\* Most runs of the transaction middleware on one match.
MaxWraps == 2
\* Most calls of match.execute in one behaviour.
MaxCalls == 3

\* ------------------------------------------------------------ JS values
Undefined == "undefined"

\* The bytes a body is made of.
Alphabet == {"[", "]"}

RECURSIVE SeqSum(_)
SeqSum(s) == IF s = <<>> THEN 0 ELSE Len(Head(s)) + SeqSum(Tail(s))

\* Buffer.concat(list)
RECURSIVE Concat(_)
Concat(s) == IF s = <<>> THEN <<>> ELSE Head(s) \o Concat(Tail(s))

Texts(n) == UNION {[1..k -> Alphabet] : k \in 1..n}

\* Every way a body of at most MaxBodyLen bytes arrives as non-empty chunks.
RECURSIVE ChunkSeqs(_)
ChunkSeqs(n) ==
  IF n = 0 THEN {<<>>}
  ELSE {<<>>} \cup {<<c>> \o r : c \in Texts(n), r \in ChunkSeqs(n - 1)}

Bodies == {b \in ChunkSeqs(MaxBodyLen) : SeqSum(b) <= MaxBodyLen}

\* a < b as JavaScript evaluates it when b may be undefined: undefined
\* converts to NaN and every comparison with NaN is false.
LessThan(a, b) == IF b = Undefined THEN FALSE ELSE a < b

\* JSON.parse over the alphabet: a value is an array holding at most one
\* value (there is no comma), written here as a tuple.
\* What JSON.parse makes of a text: the value, or the SyntaxError's message.
Parsed(v, r) == [ok |-> TRUE, value |-> v, rest |-> r, message |-> ""]
SyntaxError(msg) == [ok |-> FALSE, value |-> <<>>, rest |-> <<>>, message |-> msg]

RECURSIVE ParseValue(_)
ParseValue(s) ==
  IF s = <<>> THEN SyntaxError("Unexpected end of JSON input")
  ELSE IF Head(s) # "[" THEN SyntaxError("Unexpected token")
  ELSE IF Tail(s) = <<>> THEN SyntaxError("Unexpected end of JSON input")
  ELSE IF Head(Tail(s)) = "]" THEN Parsed(<<>>, Tail(Tail(s)))
  ELSE LET r == ParseValue(Tail(s)) IN
    IF ~r.ok THEN r
    ELSE IF r.rest = <<>> THEN SyntaxError("Unexpected end of JSON input")
    ELSE IF Head(r.rest) = "]" THEN Parsed(<<r.value>>, Tail(r.rest))
    ELSE SyntaxError("Unexpected token")

JSONparse(s) ==
  LET r == ParseValue(s) IN
    IF r.ok /\ r.rest # <<>> THEN SyntaxError("Unexpected token") ELSE r

\* ------------------------------------------------- headers, ids and URLs
\* The length of ID_SCRATCH_BUFFER.
ScratchLen == 16

\* The header names a request carries (node lower-cases them) and their
\* values; the empty value is the falsy one.
HeaderNames == {"request-id", "x-id"}
HeaderValues == {"", "abc"}

\* Every headers object a request can arrive with.
AllHeaders == UNION {[d -> HeaderValues] : d \in SUBSET HeaderNames}

\* String.prototype.toLowerCase over the header names in use.
toLowerCase(n) ==
  CASE n = "Request-Id" -> "request-id"
    [] n = "X-Id" -> "x-id"
    [] OTHER -> n

\* server.opts.requestIDHeaders: left out, or a list of header names.
NotConfigured == [defined |-> FALSE, list |-> <<>>]
Configured(l) == [defined |-> TRUE, list |-> l]
RequestIDHeaders ==
  {NotConfigured, Configured(<<"request-id">>), Configured(<<"Request-Id">>),
   Configured(<<"x-id", "request-id">>)}

\* server.opts.requestIDHeaders || ['request-id']
Candidates(opts) ==
  IF opts.requestIDHeaders.defined THEN opts.requestIDHeaders.list
  ELSE <<"request-id">>

\* A string value, and the undefined a missing property reads as.
StringValue(t) == [kind |-> "string", id |-> 0, text |-> t]
Missing == [kind |-> "undefined", id |-> 0]

\* headers[name]
Lookup(h, n) == IF n \in DOMAIN h THEN StringValue(h[n]) ELSE Missing

\* A test of truthiness that never passes.
Truthy_never(v) == FALSE

\* What `if (v)` and `v || ...` take for true: not null, not undefined, not
\* the empty string.
Truthy(v) ==
  /\ v.kind \notin {"null", "undefined"}
  /\ ~(v.kind = "string" /\ v.text = "")

\* crypto.createHash('sha1').update(text).digest('base64') of the header
\* values in use.
sha1_base64(t) ==
  CASE t = "" -> "2jmj7l5rSw0yVb/vlWAYkK/YBwk="
    [] t = "abc" -> "qZk+NkcGgWq6PiVxeFDCbJzQ2J0="

\* The bytes the random source of uuid hands out: sixteen equal bytes.
RandomBytes == {0, 255}
Rng == {[i \in 1..ScratchLen |-> b] : b \in RandomBytes}

\* uuid.v4(null, buf): the random bytes with the version and variant bits
\* set (bytes 6 and 8, counted from 0).
v4(rnds) == [rnds EXCEPT ![7] = (@ % 16) + 64, ![9] = (@ % 64) + 128]

Base64Chars ==
  <<"A", "B", "C", "D", "E", "F", "G", "H", "I", "J", "K", "L", "M", "N", "O",
    "P", "Q", "R", "S", "T", "U", "V", "W", "X", "Y", "Z", "a", "b", "c", "d",
    "e", "f", "g", "h", "i", "j", "k", "l", "m", "n", "o", "p", "q", "r", "s",
    "t", "u", "v", "w", "x", "y", "z", "0", "1", "2", "3", "4", "5", "6", "7",
    "8", "9", "+", "/">>

\* buf.toString('base64'): a new string, three bytes to four characters.
RECURSIVE toString_base64(_)
toString_base64(b) ==
  IF b = <<>> THEN ""
  ELSE IF Len(b) = 1 THEN
    Base64Chars[(b[1] \div 4) + 1] \o Base64Chars[((b[1] % 4) * 16) + 1] \o "=="
  ELSE IF Len(b) = 2 THEN
    Base64Chars[(b[1] \div 4) + 1]
      \o Base64Chars[((b[1] % 4) * 16) + (b[2] \div 16) + 1]
      \o Base64Chars[((b[2] % 16) * 4) + 1] \o "="
  ELSE
    Base64Chars[(b[1] \div 4) + 1]
      \o Base64Chars[((b[1] % 4) * 16) + (b[2] \div 16) + 1]
      \o Base64Chars[((b[2] % 16) * 4) + (b[3] \div 64) + 1]
      \o Base64Chars[(b[3] % 64) + 1]
      \o toString_base64(SubSeq(b, 4, Len(b)))

\* The request URLs, character by character.
Urls == {<<"/", "a">>, <<"/", "a", "?", "x", "=", "1">>}

\* What precedes the first c in s, and what follows it.
RECURSIVE Before(_, _)
Before(s, c) ==
  IF s = <<>> \/ Head(s) = c THEN <<>> ELSE <<Head(s)>> \o Before(Tail(s), c)

RECURSIVE After(_, _)
After(s, c) ==
  IF s = <<>> THEN <<>>
  ELSE IF Head(s) = c THEN Tail(s) ELSE After(Tail(s), c)

\* querystring.parse: the name=value pairs between the ampersands.
RECURSIVE querystring_parse(_)
querystring_parse(s) ==
  IF s = <<>> THEN {}
  ELSE {<<Before(Before(s, "&"), "="), After(Before(s, "&"), "=")>>}
         \cup querystring_parse(After(s, "&"))

\* url.parse(text, true): the path, the search string and the parsed query.
url_parse(u) ==
  [pathname |-> Before(u, "?"),
   search |-> IF Before(u, "?") = u THEN <<>> ELSE <<"?">> \o After(u, "?"),
   query |-> querystring_parse(After(u, "?"))]

\* ---------------------------------------------------------------- state
VARIABLES
  server,        \* the server handed to makeKnorkRequest: its opts
  impl,          \* the request's Impl: body, _getBody, maxBodySize
  promises,      \* every promise created, by id
  closures,      \* every closure the outer getBody(impl, req) created, by id
  sinks,         \* every Writable collectBody created, by id
  req,           \* the incoming request stream
  immediates,    \* callbacks queued by setImmediate, oldest first
  errors,        \* how many Error objects the raw getter has created
  alive,         \* FALSE once an exception has escaped an event callback
  bodyReturned,  \* the values the body getter has returned to callers, each
                 \* with the state its promise had and whether raw had been
                 \* read by then
  thunkReturned, \* the promises that calls of a returned function returned
  pipeLog,       \* the delegations pipe made to the raw stream
  headers,       \* req.headers
  url,           \* req.url
  scratch,       \* the bytes of ID_SCRATCH_BUFFER, shared by every request
  objects,       \* every object url.parse and accepts created, by id
  idReturned,    \* what the first and the latest id call returned
  urlReturned,   \* what urlObject and query calls returned
  others,        \* the other requests of the server: headers, url, Impl
  match,         \* the route match handed to the transaction middleware
  txLog          \* what the database session and the view have done

\* What the body pipeline leaves alone: the accessors' state, the other
\* requests and the middleware's match.
accessorVars ==
  <<headers, url, scratch, objects, idReturned, urlReturned, others, match,
    txLog>>

\* What the accessors of the memoized views leave alone.
pipelineVars ==
  <<server, promises, closures, sinks, req, immediates, errors, alive,
    bodyReturned, thunkReturned, pipeLog>>

vars == <<server, impl, promises, closures, sinks, req, immediates, errors,
          alive, bodyReturned, thunkReturned, pipeLog, headers, url, scratch,
          objects, idReturned, urlReturned, others, match, txLog>>

\* References to objects. id 0 is no object.
NullRef == [kind |-> "null", id |-> 0]
FunctionRef(c) == [kind |-> "function", id |-> c]
PromiseRef(p) == [kind |-> "promise", id |-> p]

NoError == [kind |-> "none", statusCode |-> 0, message |-> "", id |-> 0]

\* new Error('Cannot read the body if "raw" has been accessed.')
RawAccessed(e) ==
  [kind |-> "Error", statusCode |-> 0,
   message |-> "Cannot read the body if \"raw\" has been accessed.", id |-> e]

\* Object.assign(new Error(`Request payload is too large.`), {statusCode: 413})
PayloadTooLarge ==
  [kind |-> "Error", statusCode |-> 413,
   message |-> "Request payload is too large.", id |-> 0]

\* Object.assign(err, {statusCode: 400}) for the error JSON.parse threw
MalformedBody(msg) ==
  [kind |-> "SyntaxError", statusCode |-> 400, message |-> msg, id |-> 0]

\* new Promise(...): pending, no resolve or reject call made yet.
NewPromise ==
  [state |-> "pending", error |-> NoError, value |-> <<>>, settles |-> 0]

\* reject(err) of a promise: only the first resolve or reject call counts.
Reject(p, err) ==
  IF p.state = "pending"
    THEN [p EXCEPT !.state = "rejected", !.error = err, !.settles = @ + 1]
    ELSE [p EXCEPT !.settles = @ + 1]

\* resolve(obj) of a promise.
Resolve(p, v) ==
  IF p.state = "pending"
    THEN [p EXCEPT !.state = "fulfilled", !.value = v, !.settles = @ + 1]
    ELSE [p EXCEPT !.settles = @ + 1]

\* The _getBody an Impl is constructed with, and the one disableBody installs.
Collecting == [kind |-> "collect", reason |-> 0]
Disabled(e) == [kind |-> "disabled", reason |-> e]

\* new Impl(kreq, server): body is null and maxBodySize is not assigned.
NewImpl(id) ==
  [id |-> id, url |-> NullRef, accept |-> NullRef, body |-> NullRef,
   getBodyFn |-> Collecting, maxBodySize |-> Undefined]

\* The text of the scratch buffer after uuid.v4 filled it from each output
\* of the random source.
Generated == [r \in Rng |-> toString_base64(v4(r))]

\* generateID(): uuid.v4 into the scratch buffer, then the buffer as text.
generateID(rnds) == [scratch |-> v4(rnds), text |-> Generated[rnds]]

\* hashIncoming(headers, search): the first name whose lower-cased form is
\* in headers is looked up as it is written; hash.update(undefined) throws.
hashIncoming(h, search, buf, rnds) ==
  LET hits == {i \in 1..Len(search) : toLowerCase(search[i]) \in DOMAIN h}
      i == CHOOSE k \in hits : \A j \in hits : k <= j
  IN IF hits = {} THEN [threw |-> FALSE, id |-> NullRef, scratch |-> buf]
     ELSE IF Lookup(h, search[i]).kind = "undefined"
       THEN [threw |-> TRUE, id |-> NullRef, scratch |-> buf]
     ELSE [threw |-> FALSE,
           id |-> StringValue(sha1_base64(Lookup(h, search[i]).text) \o "-"
                                \o generateID(rnds).text),
           scratch |-> generateID(rnds).scratch]

\* new Impl(kreq, server) with the scratch buffer holding buf: the Impl,
\* the buffer afterwards, and whether the constructor threw.
Impl_constructor(srv, h, buf, rnds) ==
  LET got == IF srv.opts.isExternal
               THEN hashIncoming(h, Candidates(srv.opts), buf, rnds)
               ELSE [threw |-> FALSE,
                     id |-> IF Truthy(Lookup(h, "request-id"))
                              THEN Lookup(h, "request-id") ELSE NullRef,
                     scratch |-> buf]
  IN [threw |-> got.threw, scratch |-> got.scratch, impl |-> NewImpl(got.id)]

\* A server in internal mode with no header names configured.
Internal(n) ==
  [opts |-> [maxBodySize |-> n, isExternal |-> FALSE,
             requestIDHeaders |-> NotConfigured]]

\* A request that carries no header.
NoHeaders == [n \in {} |-> ""]

\* ID_SCRATCH_BUFFER before any ID was generated.
Zeros == [i \in 1..ScratchLen |-> 0]

\* A route match whose action asks for a transaction or not, with the
\* execute the router gave it.
NewMatch(flag) ==
  [name |-> "view", controller |-> [view |-> [noTransaction |-> flag]],
   execute |-> [kind |-> "view", inner |-> <<>>]]

\* Another request of the same server.
NewOther(srv, h, u, buf, rnds) ==
  [headers |-> h, url |-> u, impl |-> Impl_constructor(srv, h, buf, rnds).impl]

\* The incoming message before anything reads it: paused, nothing piped.
NewReq(b) ==
  [chunks |-> b, emitted |-> 0, pipes |-> <<>>, flowing |-> FALSE,
   endEmitted |-> FALSE]

Init ==
  /\ server \in {Internal(n) : n \in 1..MaxCeiling}
  /\ headers = NoHeaders
  /\ url = <<"/", "a">>
  /\ scratch = Zeros
  /\ impl = Impl_constructor(server, headers, scratch, scratch).impl
  /\ others = <<NewOther(server, headers, url, scratch, scratch)>>
  /\ objects = <<>>
  /\ idReturned = <<>>
  /\ urlReturned = {}
  /\ match = NewMatch(FALSE)
  /\ txLog = <<>>
  /\ promises = <<>>
  /\ closures = <<>>
  /\ sinks = <<>>
  /\ req \in {NewReq(b) : b \in Bodies}
  /\ immediates = <<>>
  /\ errors = 0
  /\ alive = TRUE
  /\ bodyReturned = {}
  /\ thunkReturned = {}
  /\ pipeLog = {}

\* ------------------------------------------------------- stream plumbing
\* new Writable({write, end}): nothing written, no write in progress.
NewSink(c) ==
  [closure |-> c, bytesWritten |-> 0, acc |-> <<>>, writing |-> FALSE,
   buffer |-> <<>>, inert |-> FALSE, ending |-> FALSE, finished |-> FALSE]

\* The properties of the options object collectBody passes to Writable.
SinkOptions == {"write", "end"}

\* The option names the Writable constructor installs as methods of the
\* stream; any other property of the options object is ignored, and
\* Writable.prototype.end is what the pipe calls at the end of the source.
WritableHooks == {"write", "writev", "destroy", "final"}

Installed == SinkOptions \cap WritableHooks

RECURSIVE Without(_, _)
Without(seq, x) ==
  IF seq = <<>> THEN <<>>
  ELSE IF Head(seq) = x THEN Tail(seq)
  ELSE <<Head(seq)>> \o Without(Tail(seq), x)

InSeq(seq, x) == \E i \in 1..Len(seq) : seq[i] = x

\* req.unpipe(dest): dest stops receiving; a source left with no
\* destination stops flowing.
req_unpipe(r, s) ==
  IF ~InSeq(r.pipes, s) THEN r
  ELSE [r EXCEPT !.pipes = Without(@, s),
                 !.flowing = IF Len(r.pipes) = 1 THEN FALSE ELSE @]

\* bytesWritten < impl.maxBodySize
UnderCeiling(bytes) == LessThan(bytes, impl.maxBodySize)

\* A write that rejects at the ceiling but leaves the sink piped.
write_keepPiped(st, s, chunk) ==
  LET bw == st.sinks[s].bytesWritten + Len(chunk)
      counted == [st EXCEPT !.sinks[s].bytesWritten = bw,
                            !.sinks[s].acc = Append(@, chunk)]
      p == closures[st.sinks[s].closure].promise
  IN IF UnderCeiling(bw) THEN counted
     ELSE [counted EXCEPT !.sinks[s].inert = TRUE,
                          !.promises[p] = Reject(@, PayloadTooLarge)]

\* A write that acknowledges every chunk and rejects at the ceiling without
\* detaching the sink or making it inert.
write_acking(st, s, chunk) ==
  LET bw == st.sinks[s].bytesWritten + Len(chunk)
      counted == [st EXCEPT !.sinks[s].bytesWritten = bw,
                            !.sinks[s].acc = Append(@, chunk),
                            !.sinks[s].writing = FALSE]
      p == closures[st.sinks[s].closure].promise
  IN IF UnderCeiling(bw) THEN counted
     ELSE [counted EXCEPT !.promises[p] = Reject(@, PayloadTooLarge)]

\* The write (chunk, enc, ready) of the sink. st holds the sinks, the
\* promises and the source. ready is never called, so the Writable stays in
\* its writing state after the first chunk it hands over.
write(st, s, chunk) ==
  LET bw == st.sinks[s].bytesWritten + Len(chunk)
      counted == [st EXCEPT !.sinks[s].bytesWritten = bw,
                            !.sinks[s].acc = Append(@, chunk)]
      p == closures[st.sinks[s].closure].promise
  IN IF UnderCeiling(bw) THEN counted
     ELSE [counted EXCEPT !.req = req_unpipe(@, s),
                          !.sinks[s].inert = TRUE,
                          !.promises[p] = Reject(@, PayloadTooLarge)]

\* The end () of the options object: parse what was accumulated, then
\* resolve, or reject with the parse error tagged 400.
end(st, s) ==
  LET parsed == JSONparse(Concat(st.sinks[s].acc))
      p == closures[st.sinks[s].closure].promise
  IN IF parsed.ok
       THEN [st EXCEPT !.promises[p] = Resolve(@, parsed.value)]
       ELSE [st EXCEPT !.promises[p] = Reject(@, MalformedBody(parsed.message))]

\* Writable.prototype.write: a chunk is handed to _write unless an earlier
\* one has not been acknowledged yet, and then it waits in the buffer.
Writable_write(st, s, chunk) ==
  IF st.sinks[s].writing
    THEN [st EXCEPT !.sinks[s].buffer = Append(@, chunk)]
    ELSE LET handed == [st EXCEPT !.sinks[s].writing = TRUE]
         IN IF st.sinks[s].inert THEN handed ELSE write(handed, s, chunk)

\* dest.end() as the pipe calls it when the source ends: the stream
\* finishes, and is unpiped, once nothing written is outstanding.
Writable_end(st, s) ==
  LET ended == IF "end" \in Installed THEN end(st, s) ELSE st
      idle == ~st.sinks[s].writing /\ st.sinks[s].buffer = <<>>
  IN [ended EXCEPT !.sinks[s].ending = TRUE,
                   !.sinks[s].finished = idle,
                   !.req = IF idle THEN req_unpipe(@, s) ELSE @]

\* The 'data' listeners of the piped sinks, called in the order piped.
RECURSIVE EmitData(_, _, _)
EmitData(st, dests, chunk) ==
  IF dests = <<>> THEN st
  ELSE IF Head(dests) = 0 THEN EmitData(st, Tail(dests), chunk)
  ELSE EmitData(Writable_write(st, Head(dests), chunk), Tail(dests), chunk)

\* The 'end' listeners, called in the order piped, up to the first that
\* throws: the listener of a pipe without destination calls end on
\* undefined.
RECURSIVE EmitEnd(_, _)
EmitEnd(st, dests) ==
  IF dests = <<>> THEN st
  ELSE IF Head(dests) = 0 THEN [st EXCEPT !.alive = FALSE]
  ELSE EmitEnd(Writable_end(st, Head(dests)), Tail(dests))

World == [sinks |-> sinks, promises |-> promises, req |-> req, alive |-> alive]

\* -------------------------------------------------------------- actions
\* Impl.getBody without its test of the memoized value.
IsSet_never(v) == FALSE

\* if (this.body): whether the memoized value is there.
IsSet(v) == v # NullRef

\* A disableBody that leaves _getBody alone.
disableBody_noop(i, reason) == i

\* A disableBody that also drops the memoized body.
disableBody_forget(i, reason) ==
  [i EXCEPT !.getBodyFn = Disabled(reason), !.body = NullRef]

\* Impl.disableBody(reason): only _getBody is replaced.
disableBody(i, reason) == [i EXCEPT !.getBodyFn = Disabled(reason)]

\* The destinations a caller hands to pipe.
Dests == {"dst"}

\* `arguments` inside the arrow function the pipe getter returns: an arrow
\* function has none of its own, so these are the getter's, and a getter is
\* called with no argument.
ArrowArguments(given) == <<>>

\* The promise behind a value the body getter returned: the promise itself,
\* or the one the returned function hands out.
FutureOf(ref) == IF ref.kind = "function" THEN closures[ref.id].promise ELSE ref.id

\* get body -> Impl.getBody. The first call stores what _getBody() returns:
\* the inner function of getBody(impl, req) with its new pending promise, or
\* the promise of getDisabledBody(reason), rejected from a setImmediate.
body ==
  /\ alive
  /\ IF IsSet(impl.body)
       THEN UNCHANGED <<impl, promises, closures, immediates>>
       ELSE /\ Len(promises) < MaxPromises
            /\ promises' = Append(promises, NewPromise)
            /\ IF impl.getBodyFn.kind = "collect"
                 THEN /\ closures' = Append(closures,
                             [promise |-> Len(promises) + 1, triggered |-> FALSE])
                      /\ impl' = [impl EXCEPT !.body = FunctionRef(Len(closures) + 1)]
                      /\ UNCHANGED immediates
                 ELSE /\ immediates' = Append(immediates,
                             [promise |-> Len(promises) + 1,
                              reason |-> impl.getBodyFn.reason])
                      /\ impl' = [impl EXCEPT !.body = PromiseRef(Len(promises) + 1)]
                      /\ UNCHANGED closures
  /\ bodyReturned' = bodyReturned \cup
       {[ref |-> impl'.body,
         state |-> IF IsSet(impl.body) THEN promises[FutureOf(impl.body)].state
                                       ELSE "pending",
         rawBefore |-> errors > 0]}
  /\ UNCHANGED accessorVars
  /\ UNCHANGED <<server, sinks, req, errors, alive, thunkReturned, pipeLog>>

\* collectBody of closure c: req.pipe(new Writable(...)). The source starts
\* flowing; a source that has already ended ends the new sink at once.
collectBody(c) ==
  LET s == Len(sinks) + 1
      piped == [World EXCEPT !.sinks = Append(@, NewSink(c)),
                             !.req.pipes = Append(@, s),
                             !.req.flowing = TRUE]
  IN IF req.endEmitted THEN Writable_end(piped, s) ELSE piped

\* A caller calls the function body returned: the inner getBody () of
\* closure c, which collects on its first call and returns its promise.
getBody(c) ==
  /\ alive
  /\ \E x \in bodyReturned : x.ref = FunctionRef(c)
  /\ IF ~closures[c].triggered
       THEN /\ closures' = [closures EXCEPT ![c].triggered = TRUE]
            /\ sinks' = collectBody(c).sinks
            /\ req' = collectBody(c).req
       ELSE UNCHANGED <<closures, sinks, req>>
  /\ thunkReturned' = thunkReturned \cup {closures[c].promise}
  /\ UNCHANGED accessorVars
  /\ UNCHANGED <<server, impl, promises, immediates, errors, alive,
                 bodyReturned, pipeLog>>

\* get raw: disableBody(new Error(...)), then the request is returned.
raw ==
  /\ alive
  /\ errors < MaxErrors
  /\ errors' = errors + 1
  /\ impl' = disableBody(impl, errors + 1)
  /\ UNCHANGED accessorVars
  /\ UNCHANGED <<server, promises, closures, sinks, req, immediates, alive,
                 bodyReturned, thunkReturned, pipeLog>>

\* A caller calls the function the pipe getter returned with a destination:
\* this.raw.pipe.apply(this.raw, arguments) reads raw twice, then calls the
\* stream's pipe with the arrow's arguments. Called without destination,
\* the stream's pipe registers the missing destination and its 'end'
\* listener and then throws, before it would start the flow.
pipe(dst) ==
  /\ alive
  /\ errors + 2 <= MaxErrors
  /\ errors' = errors + 2
  /\ impl' = disableBody(disableBody(impl, errors + 1), errors + 2)
  /\ pipeLog' = pipeLog \cup {[given |-> <<dst>>, passed |-> ArrowArguments(<<dst>>)]}
  /\ IF ArrowArguments(<<dst>>) = <<>>
       THEN /\ req' = [req EXCEPT !.pipes = Append(@, 0)]
            /\ alive' = ~req.endEmitted
       ELSE UNCHANGED <<req, alive>>
  /\ UNCHANGED accessorVars
  /\ UNCHANGED <<server, promises, closures, sinks, immediates, bodyReturned,
                 thunkReturned>>

\* The source emits its next chunk as a 'data' event.
Data ==
  /\ alive
  /\ req.flowing
  /\ req.emitted < Len(req.chunks)
  /\ LET st == EmitData([World EXCEPT !.req.emitted = @ + 1], req.pipes,
                        req.chunks[req.emitted + 1])
     IN /\ sinks' = st.sinks
        /\ promises' = st.promises
        /\ req' = st.req
  /\ UNCHANGED accessorVars
  /\ UNCHANGED <<server, impl, closures, immediates, errors, alive,
                 bodyReturned, thunkReturned, pipeLog>>

\* The source has emitted every chunk and emits 'end'.
End ==
  /\ alive
  /\ req.flowing
  /\ req.emitted = Len(req.chunks)
  /\ ~req.endEmitted
  /\ LET st == EmitEnd([World EXCEPT !.req.endEmitted = TRUE], req.pipes)
     IN /\ sinks' = st.sinks
        /\ promises' = st.promises
        /\ req' = st.req
        /\ alive' = st.alive
  /\ UNCHANGED accessorVars
  /\ UNCHANGED <<server, impl, closures, immediates, errors, bodyReturned,
                 thunkReturned, pipeLog>>

\* The event loop runs the oldest setImmediate callback of getDisabledBody:
\* reject(reason).
Immediate ==
  /\ alive
  /\ immediates # <<>>
  /\ promises' = [promises EXCEPT ![Head(immediates).promise] =
                    Reject(@, RawAccessed(Head(immediates).reason))]
  /\ immediates' = Tail(immediates)
  /\ UNCHANGED accessorVars
  /\ UNCHANGED <<server, impl, closures, sinks, req, errors, alive,
                 bodyReturned, thunkReturned, pipeLog>>

Next ==
  \/ body
  \/ \E c \in 1..Len(closures) : getBody(c)
  \/ raw
  \/ \E dst \in Dests : pipe(dst)
  \/ Data
  \/ End
  \/ Immediate

Spec == Init /\ [][Next]_vars

\* The event loop runs every callback that is due: stream events while the
\* source flows, and queued setImmediate callbacks.
FairSpec == Spec /\ WF_vars(Data) /\ WF_vars(End) /\ WF_vars(Immediate)

\* ---------------------------------------------------- memoized accessors
UrlRef(k) == [kind |-> "Url", id |-> k]
AcceptsRef(k) == [kind |-> "Accepts", id |-> k]

\* The scratch buffer itself, where a string made from it should be.
ScratchRef == [kind |-> "buffer", id |-> 0]

\* An Impl.getID that keeps ID_SCRATCH_BUFFER instead of its text.
getID_aliasing(i, buf, rnds) ==
  IF Truthy(i.id) THEN [impl |-> i, scratch |-> buf, value |-> i.id]
  ELSE [impl |-> [i EXCEPT !.id = ScratchRef], scratch |-> v4(rnds),
        value |-> ScratchRef]

\* Impl.getID with the scratch buffer holding buf: the Impl and the buffer
\* afterwards, and the value returned.
getID(i, buf, rnds) ==
  IF Truthy(i.id) THEN [impl |-> i, scratch |-> buf, value |-> i.id]
  ELSE [impl |-> [i EXCEPT !.id = StringValue(Generated[rnds])],
        scratch |-> v4(rnds),
        value |-> StringValue(Generated[rnds])]

\* Impl.getURL for the request URL u: url.parse makes a new object.
getURL(i, u, heap) ==
  IF IsSet(i.url) THEN [impl |-> i, objects |-> heap, value |-> i.url]
  ELSE [impl |-> [i EXCEPT !.url = UrlRef(Len(heap) + 1)],
        objects |-> Append(heap, [kind |-> "Url", value |-> url_parse(u)]),
        value |-> UrlRef(Len(heap) + 1)]

\* Impl.getAccepts for the request headers h: accepts(req) makes a new
\* object.
getAccepts(i, h, heap) ==
  IF IsSet(i.accept) THEN [impl |-> i, objects |-> heap, value |-> i.accept]
  ELSE [impl |-> [i EXCEPT !.accept = AcceptsRef(Len(heap) + 1)],
        objects |-> Append(heap, [kind |-> "Accepts", value |-> h]),
        value |-> AcceptsRef(Len(heap) + 1)]

\* The other accessors that have been used on the request so far.
Seen ==
  {a \in {"raw", "body", "urlObject", "accept"} :
     \/ a = "raw" /\ errors > 0
     \/ a = "body" /\ IsSet(impl.body)
     \/ a = "urlObject" /\ IsSet(impl.url)
     \/ a = "accept" /\ IsSet(impl.accept)}

\* get id -> Impl.getID
id ==
  /\ alive
  /\ \E rnds \in Rng :
       LET got == getID(impl, scratch, rnds)
           entry == [value |-> got.value, generated |-> ~Truthy(impl.id),
                     seen |-> Seen]
       IN /\ impl' = got.impl
          /\ scratch' = got.scratch
          /\ idReturned' = IF idReturned = <<>> THEN <<entry>>
                           ELSE <<idReturned[1], entry>>
  /\ UNCHANGED <<headers, url, objects, urlReturned, others, match, txLog>>
  /\ UNCHANGED pipelineVars

\* get urlObject -> Impl.getURL
urlObject ==
  /\ alive
  /\ IsSet(impl.url) \/ Len(objects) < MaxObjects
  /\ LET got == getURL(impl, url, objects) IN
       /\ impl' = got.impl
       /\ objects' = got.objects
       /\ urlReturned' = urlReturned \cup
            {[op |-> "urlObject", ref |-> got.value, parsed |-> ~IsSet(impl.url),
              query |-> got.objects[got.value.id].value.query]}
  /\ UNCHANGED <<headers, url, scratch, idReturned, others, match, txLog>>
  /\ UNCHANGED pipelineVars

\* get query -> Impl.getURL().query
query ==
  /\ alive
  /\ IsSet(impl.url) \/ Len(objects) < MaxObjects
  /\ LET got == getURL(impl, url, objects) IN
       /\ impl' = got.impl
       /\ objects' = got.objects
       /\ urlReturned' = urlReturned \cup
            {[op |-> "query", ref |-> got.value, parsed |-> ~IsSet(impl.url),
              query |-> got.objects[got.value.id].value.query]}
  /\ UNCHANGED <<headers, url, scratch, idReturned, others, match, txLog>>
  /\ UNCHANGED pipelineVars

\* get accept -> Impl.getAccepts
accept ==
  /\ alive
  /\ IsSet(impl.accept) \/ Len(objects) < MaxObjects
  /\ LET got == getAccepts(impl, headers, objects) IN
       /\ impl' = got.impl
       /\ objects' = got.objects
  /\ UNCHANGED <<headers, url, scratch, idReturned, urlReturned, others, match,
                 txLog>>
  /\ UNCHANGED pipelineVars

\* Every server configuration of the ID derivation.
Servers ==
  {[opts |-> [maxBodySize |-> MaxCeiling, isExternal |-> e,
              requestIDHeaders |-> l]] : e \in BOOLEAN, l \in RequestIDHeaders}

\* The state of a request no accessor has been used on yet.
Untouched ==
  /\ promises = <<>>
  /\ closures = <<>>
  /\ sinks = <<>>
  /\ req = NewReq(<<>>)
  /\ immediates = <<>>
  /\ errors = 0
  /\ bodyReturned = {}
  /\ thunkReturned = {}
  /\ pipeLog = {}
  /\ objects = <<>>
  /\ idReturned = <<>>
  /\ urlReturned = {}

\* No view has been matched for the request yet.
Unrouted ==
  /\ match = NewMatch(FALSE)
  /\ txLog = <<>>

\* makeKnorkRequest(req, server) for every configuration, headers and URL:
\* a constructor that throws leaves no request to call.
AccInit ==
  /\ server \in Servers
  /\ headers \in AllHeaders
  /\ url \in Urls
  /\ \E rnds \in Rng :
       LET made == Impl_constructor(server, headers, Zeros, rnds) IN
         /\ impl = made.impl
         /\ scratch = made.scratch
         /\ alive = ~made.threw
  /\ others = <<NewOther(Internal(MaxCeiling), NoHeaders, url, Zeros, Zeros)>>
  /\ Untouched
  /\ Unrouted

AccNext ==
  \/ id
  \/ urlObject
  \/ query
  \/ accept

\* The accessors of the derived views of one request, called in any
\* order, for every configuration.
AccSpec == AccInit /\ [][AccNext]_vars

\* A request with or without the default ID header, on a server with no
\* header names configured.
MemoInit ==
  /\ server \in {s \in Servers : ~s.opts.requestIDHeaders.defined}
  /\ headers \in {h \in AllHeaders : \A n \in DOMAIN h : n = "request-id" /\ h[n] # ""}
  /\ url \in Urls
  /\ \E rnds \in Rng :
       LET made == Impl_constructor(server, headers, Zeros, rnds) IN
         /\ impl = made.impl
         /\ scratch = made.scratch
         /\ alive = ~made.threw
  /\ others = <<NewOther(Internal(MaxCeiling), NoHeaders, url, Zeros, Zeros)>>
  /\ Untouched
  /\ Unrouted

MemoNext ==
  \/ id
  \/ urlObject
  \/ query
  \/ accept
  \/ raw
  \/ body

\* Every accessor of one request, the body gate included, called in any
\* order.
MemoSpec == MemoInit /\ [][MemoNext]_vars

\* ------------------------------------------------------------ two requests
\* get id of the k-th of the other requests
other_id(k) ==
  /\ alive
  /\ \E rnds \in Rng :
       LET got == getID(others[k].impl, scratch, rnds) IN
         /\ others' = [others EXCEPT ![k].impl = got.impl]
         /\ scratch' = got.scratch
  /\ UNCHANGED <<impl, headers, url, objects, idReturned, urlReturned, match,
                 txLog>>
  /\ UNCHANGED pipelineVars

\* get urlObject of the k-th of the other requests
other_urlObject(k) ==
  /\ alive
  /\ IsSet(others[k].impl.url) \/ Len(objects) < MaxObjects
  /\ LET got == getURL(others[k].impl, others[k].url, objects) IN
       /\ others' = [others EXCEPT ![k].impl = got.impl]
       /\ objects' = got.objects
  /\ UNCHANGED <<impl, headers, url, scratch, idReturned, urlReturned, match,
                 txLog>>
  /\ UNCHANGED pipelineVars

\* get accept of the k-th of the other requests
other_accept(k) ==
  /\ alive
  /\ IsSet(others[k].impl.accept) \/ Len(objects) < MaxObjects
  /\ LET got == getAccepts(others[k].impl, others[k].headers, objects) IN
       /\ others' = [others EXCEPT ![k].impl = got.impl]
       /\ objects' = got.objects
  /\ UNCHANGED <<impl, headers, url, scratch, idReturned, urlReturned, match,
                 txLog>>
  /\ UNCHANGED pipelineVars

\* get raw of the k-th of the other requests
other_raw(k) ==
  /\ alive
  /\ errors < MaxErrors
  /\ errors' = errors + 1
  /\ others' = [others EXCEPT ![k].impl = disableBody(@, errors + 1)]
  /\ UNCHANGED <<impl, headers, url, scratch, objects, idReturned, urlReturned,
                 match, txLog>>
  /\ UNCHANGED <<server, promises, closures, sinks, req, immediates, alive,
                 bodyReturned, thunkReturned, pipeLog>>

\* get body of the k-th of the other requests
other_body(k) ==
  /\ alive
  /\ IF IsSet(others[k].impl.body)
       THEN UNCHANGED <<others, promises, closures, immediates>>
       ELSE /\ Len(promises) < MaxPromises
            /\ promises' = Append(promises, NewPromise)
            /\ IF others[k].impl.getBodyFn.kind = "collect"
                 THEN /\ closures' = Append(closures,
                             [promise |-> Len(promises) + 1, triggered |-> FALSE])
                      /\ others' = [others EXCEPT
                                      ![k].impl.body = FunctionRef(Len(closures) + 1)]
                      /\ UNCHANGED immediates
                 ELSE /\ immediates' = Append(immediates,
                             [promise |-> Len(promises) + 1,
                              reason |-> others[k].impl.getBodyFn.reason])
                      /\ others' = [others EXCEPT
                                      ![k].impl.body = PromiseRef(Len(promises) + 1)]
                      /\ UNCHANGED closures
  /\ UNCHANGED <<impl, headers, url, scratch, objects, idReturned, urlReturned,
                 match, txLog>>
  /\ UNCHANGED <<server, sinks, req, errors, alive, bodyReturned, thunkReturned,
                 pipeLog>>

\* Requests of one internal server, none carrying an ID header.
IsoInit ==
  /\ server = Internal(MaxCeiling)
  /\ headers = NoHeaders
  /\ url = <<"/", "a">>
  /\ scratch = Zeros
  /\ impl = Impl_constructor(server, headers, scratch, scratch).impl
  /\ others = <<NewOther(server, NoHeaders, <<"/", "a">>, scratch, scratch),
                NewOther(server, NoHeaders, <<"/", "a", "?", "x", "=", "1">>,
                         scratch, scratch)>>
  /\ alive = TRUE
  /\ Untouched
  /\ Unrouted

\* An accessor call on the k-th of the other requests.
OtherCall(k) ==
  \/ other_id(k)
  \/ other_urlObject(k)
  \/ other_accept(k)
  \/ other_raw(k)
  \/ other_body(k)

IsoNext ==
  \/ \E k \in 1..Len(others) : other_id(k)
  \/ \E k \in 1..Len(others) : other_urlObject(k)
  \/ \E k \in 1..Len(others) : other_accept(k)
  \/ \E k \in 1..Len(others) : other_raw(k)
  \/ \E k \in 1..Len(others) : other_body(k)

\* The accessors of two requests, interleaved in any order.
IsoSpec == IsoInit /\ [][IsoNext]_vars

\* -------------------------------------------------- transaction middleware
\* A processView that wraps whatever the action asks for.
noTransaction_ignored(m) == FALSE

\* match.controller[match.name].noTransaction
noTransaction(m) == m.controller[m.name].noTransaction

\* () => { return oldRunFunction() }
Arrow(oldRunFunction) == [kind |-> "arrow", inner |-> <<oldRunFunction>>]

\* db.transaction(fn) of the database session: a function that runs fn
\* inside a transaction.
db_transaction(fn) == [kind |-> "transaction", inner |-> <<fn>>]

\* How a call of the view can end.
Outcomes == {"ok", "fail"}

\* What a call of the function f does when the view ends with outcome o: the
\* view runs; an arrow calls what it closed over; a transaction begins,
\* runs its function, and commits when that succeeded, rolls back when not.
RECURSIVE Run(_, _)
Run(f, o) ==
  IF f.kind = "view" THEN <<IF o = "ok" THEN "view" ELSE "view failed">>
  ELSE IF f.kind = "arrow" THEN Run(f.inner[1], o)
  ELSE <<"begin">> \o Run(f.inner[1], o)
         \o <<IF o = "ok" THEN "commit" ELSE "rollback">>

\* How many times ev occurs in log.
RECURSIVE Count(_, _)
Count(log, ev) ==
  IF log = <<>> THEN 0
  ELSE (IF Head(log) = ev THEN 1 ELSE 0) + Count(Tail(log), ev)

\* processView(request, match, context)
processView ==
  /\ Count(txLog, "processView") < MaxWraps
  /\ txLog' = Append(txLog, "processView")
  /\ IF noTransaction(match)
       THEN UNCHANGED match
       ELSE match' = [match EXCEPT !.execute = db_transaction(Arrow(@))]
  /\ UNCHANGED <<impl, headers, url, scratch, objects, idReturned, urlReturned,
                 others>>
  /\ UNCHANGED pipelineVars

\* The router calls match.execute() and the view ends with outcome o.
execute(o) ==
  /\ Count(txLog, "execute") < MaxCalls
  /\ txLog' = txLog \o <<"execute">> \o Run(match.execute, o)
  /\ UNCHANGED <<impl, headers, url, scratch, objects, idReturned, urlReturned,
                 others, match>>
  /\ UNCHANGED pipelineVars

\* A match whose action asks for a transaction or declines it, before the
\* middleware has seen it.
TxInit ==
  /\ server = Internal(MaxCeiling)
  /\ headers = NoHeaders
  /\ url = <<"/", "a">>
  /\ scratch = Zeros
  /\ impl = Impl_constructor(server, headers, scratch, scratch).impl
  /\ others = <<>>
  /\ alive = TRUE
  /\ Untouched
  /\ match \in {NewMatch(flag) : flag \in BOOLEAN}
  /\ txLog = <<>>

TxNext ==
  \/ processView
  \/ \E o \in Outcomes : execute(o)

\* The middleware and the calls of match.execute, in any order.
TxSpec == TxInit /\ [][TxNext]_vars

\* --------------------------------------------------------------- claims
\* The promises behind the values body has returned.
BodyFutures == {FutureOf(x.ref) : x \in bodyReturned}

\* Promise p has been rejected with an Error a raw access created.
RejectedAsDisabled(p) ==
  /\ promises[p].state = "rejected"
  /\ promises[p].error \in {RawAccessed(e) : e \in 1..errors}

\* Promise p has been rejected with the 413 error.
RejectedTooLarge(p) ==
  /\ promises[p].state = "rejected"
  /\ promises[p].error.statusCode = 413

\* C1: whatever the sequence of body calls, before or after the body
\* promise settles, every call returns the identical value, every call of
\* that value returns the identical promise, and at most one sink is ever
\* created and piped from the raw stream.
C1_IdenticalFutureOneSink ==
  /\ Cardinality({x.ref : x \in bodyReturned}) <= 1
  /\ Cardinality(BodyFutures \cup thunkReturned) <= 1
  /\ Len(sinks) <= 1

\* C1 witness: body was called while its promise was pending and again
\* after it had settled, the promise was handed out, and one sink exists.
C1_Witness ==
  /\ \E x, y \in bodyReturned : x.state = "pending" /\ y.state = "rejected"
  /\ thunkReturned # {}
  /\ Len(sinks) = 1

\* raw or pipe was called before the first body call.
RawFirst == bodyReturned # {} /\ \A x \in bodyReturned : x.rawBefore

\* C2: when raw or pipe was called before the first body call, every body
\* call returns a promise that is never fulfilled and is rejected with the
\* Error a raw access created (its rejection is queued until then), no sink
\* is ever piped from the raw stream, and the rejection does come.
C2_RawFirstBodyRejects ==
  /\ [](RawFirst =>
          /\ sinks = <<>>
          /\ \A x \in bodyReturned :
               /\ x.ref.kind = "promise"
               /\ \/ RejectedAsDisabled(x.ref.id)
                  \/ /\ promises[x.ref.id].state = "pending"
                     /\ \E i \in 1..Len(immediates) :
                          /\ immediates[i].promise = x.ref.id
                          /\ immediates[i].reason \in 1..errors)
  /\ (RawFirst ~> (\A x \in bodyReturned : RejectedAsDisabled(FutureOf(x.ref))))

\* C2 witness: after pipe, two body calls returned the promise, one while it
\* was pending and one after it was rejected as disabled.
C2_Witness ==
  /\ RawFirst
  /\ pipeLog # {}
  /\ \E x, y \in bodyReturned : x.state = "pending" /\ y.state = "rejected"
  /\ \A x \in bodyReturned : RejectedAsDisabled(x.ref.id)

\* The configured ceiling, server.opts.maxBodySize.
Ceiling == server.opts.maxBodySize

\* The whole body the request carries, and its length in bytes.
BodyText == Concat(req.chunks)
BodyLength == SeqSum(req.chunks)

\* The promise of the sink's closure.
SinkPromise(s) == closures[sinks[s].closure].promise

\* body returned the collecting function and a call of it started collection.
Collecting1 ==
  /\ impl.body.kind = "function"
  /\ closures[impl.body.id].triggered

\* C3: when body was called, collection has begun and raw or pipe is called
\* while the promise of that body call is still pending, that promise is
\* eventually rejected with the Error the raw access created (unless the
\* process has died).
C3_InFlightRejectsAsDisabled ==
  (/\ Collecting1
   /\ errors > 0
   /\ promises[FutureOf(impl.body)].state = "pending")
    ~> \/ ~alive
       \/ impl.body.kind = "function" /\ RejectedAsDisabled(FutureOf(impl.body))

\* C4: a body of valid JSON text whose length is strictly under the
\* configured maxBodySize, collected with no raw or pipe access, leads to the
\* body promise being fulfilled with the parsed value of the whole body.
C4_ValidBodyResolves ==
  (/\ Collecting1
   /\ JSONparse(BodyText).ok
   /\ BodyLength < Ceiling)
    ~> \/ errors > 0
       \/ ~alive
       \/ /\ Collecting1
          /\ promises[FutureOf(impl.body)].state = "fulfilled"
          /\ promises[FutureOf(impl.body)].value = JSONparse(BodyText).value

\* C5: a sink whose byte count has reached the configured maxBodySize has
\* its promise rejected with the 413 error, and a body whose length is
\* strictly below the configured maxBodySize is never rejected with 413.
C5_TooLargeOnlyAtCeiling ==
  \A s \in 1..Len(sinks) :
    /\ sinks[s].bytesWritten >= Ceiling => RejectedTooLarge(SinkPromise(s))
    /\ BodyLength < Ceiling => ~RejectedTooLarge(SinkPromise(s))

\* The first half of C5 alone.
C5_CeilingRejects ==
  \A s \in 1..Len(sinks) :
    sinks[s].bytesWritten >= Ceiling => RejectedTooLarge(SinkPromise(s))

\* The sink's byte count has reached the configured ceiling.
Crossed(s) == sinks[s].bytesWritten >= Ceiling

\* C6: once the byte count of a sink has reached the ceiling, the sink is
\* not piped from the source and is inert, and no later step delivers a
\* chunk to it, counts one or accumulates one: the sink never changes again.
C6_DetachedAndInert ==
  /\ [](\A s \in 1..Len(sinks) :
          Crossed(s) => ~InSeq(req.pipes, s) /\ sinks[s].inert)
  /\ [][\A s \in 1..Len(sinks) :
          Crossed(s) => sinks'[s] = sinks[s] /\ ~InSeq(req'.pipes, s)]_vars

\* C6 witness: the source has emitted a chunk after the one with which the
\* sink reached the ceiling, and the sink has neither counted nor kept it.
C6_Witness ==
  \E s \in 1..Len(sinks) :
    /\ Crossed(s)
    /\ req.emitted > Len(sinks[s].acc)
    /\ sinks[s].bytesWritten = SeqSum(sinks[s].acc)
    /\ sinks[s].buffer = <<>>

\* C7: a body that is not valid JSON text and whose length is strictly
\* under the configured maxBodySize leads to the body promise being rejected
\* with the 400 error that carries the parse error's message.
C7_InvalidBodyRejects400 ==
  (/\ Collecting1
   /\ ~JSONparse(BodyText).ok
   /\ BodyLength < Ceiling)
    ~> \/ errors > 0
       \/ ~alive
       \/ /\ Collecting1
          /\ promises[FutureOf(impl.body)].state = "rejected"
          /\ promises[FutureOf(impl.body)].error =
               MalformedBody(JSONparse(BodyText).message)

\* C8: over every interleaving of chunks, the end of the stream and
\* disabling calls, resolve or reject is called at most once on each
\* promise: the 413 rejection and the completion never both happen.
C8_SettlesAtMostOnce ==
  \A p \in 1..Len(promises) : promises[p].settles <= 1

\* C8 witness: the sink rejected its promise at the ceiling, and a further
\* chunk and the end of the stream were emitted after that.
C8_Witness ==
  \E s \in 1..Len(sinks) :
    /\ promises[SinkPromise(s)].settles = 1
    /\ RejectedTooLarge(SinkPromise(s))
    /\ req.emitted > Len(sinks[s].acc)
    /\ req.endEmitted

\* C9: once raw or pipe has disabled body access, _getBody stays the
\* disabled one, and every body call made from then on returns a promise
\* that is rejected with the disabling Error (or is pending with that
\* rejection queued).
C9_DisabledIsObserved ==
  /\ errors > 0 => impl.getBodyFn.kind = "disabled"
  /\ \A x \in bodyReturned :
       x.rawBefore =>
         /\ x.ref.kind = "promise"
         /\ \/ RejectedAsDisabled(x.ref.id)
            \/ /\ promises[x.ref.id].state = "pending"
               /\ \E i \in 1..Len(immediates) : immediates[i].promise = x.ref.id

\* The first half of C9 alone: the gate is never re-enabled.
C9_GateMonotonic ==
  [][impl.getBodyFn.kind = "disabled" => impl'.getBodyFn.kind = "disabled"]_vars

\* C10: a raw or pipe call made after the body promise has settled changes
\* neither the memoized body, nor the promise, its state and its value.
C10_SettledUnchangedByDisable ==
  [][(/\ errors' > errors
      /\ IsSet(impl.body)
      /\ promises[FutureOf(impl.body)].state # "pending")
       => /\ impl'.body = impl.body
          /\ promises' = promises
          /\ closures' = closures]_vars

\* C10 witness: body returned its value once the promise had settled and
\* before any raw access, raw was read after that, and a later body call
\* returned the same value in the same settled state.
C10_Witness ==
  \E x, y \in bodyReturned :
    /\ ~x.rawBefore /\ x.state # "pending"
    /\ y.rawBefore /\ y.state = x.state /\ y.ref = x.ref
    /\ promises[FutureOf(y.ref)].state = x.state

\* C11: every pipe(destination, ...) call has disabled body access like raw
\* and has called the raw stream's pipe with the arguments the caller gave.
C11_PipeDelegatesArguments ==
  \A l \in pipeLog :
    /\ impl.getBodyFn.kind = "disabled"
    /\ l.passed = l.given

\* C18: in every state in which the promise of a sink has settled, or raw
\* or pipe has disabled body access, that sink is no longer piped from the
\* raw stream.
C18_SinkDetachedOnTerminal ==
  \A s \in 1..Len(sinks) :
    (promises[SinkPromise(s)].state # "pending" \/ errors > 0)
      => ~InSeq(req.pipes, s)

\* C19: a body call made while body access is not disabled returns a
\* promise and has, by the time it returns, piped exactly one sink from the
\* raw stream.
C19_FirstBodyBeginsCollection ==
  \A x \in bodyReturned :
    ~x.rawBefore => x.ref.kind = "promise" /\ Len(sinks) = 1

\* C20: a body of several chunks whose length stays below the configured
\* maxBodySize, collected with no raw or pipe access, leads to a sink that
\* has counted every byte of the body and has been told of the end of the
\* stream.
C20_NoStallUnderCeiling ==
  (/\ Collecting1
   /\ Len(req.chunks) >= 2
   /\ BodyLength < Ceiling)
    ~> \/ errors > 0
       \/ ~alive
       \/ \E s \in 1..Len(sinks) :
            /\ sinks[s].bytesWritten = BodyLength
            /\ sinks[s].buffer = <<>>
            /\ sinks[s].ending

\* The first configured header name that, lower-cased, is a header of the
\* request, or 0.
FirstPresent ==
  LET search == Candidates(server.opts)
      hits == {i \in 1..Len(search) : toLowerCase(search[i]) \in DOMAIN headers}
  IN IF hits = {} THEN 0 ELSE CHOOSE k \in hits : \A j \in hits : k <= j

\* The value of that header.
PresentValue == headers[toLowerCase(Candidates(server.opts)[FirstPresent])]

\* The texts generateID can produce.
RandomIDs == {Generated[r] : r \in Rng}

\* C12: in internal mode, on a request none of whose headers is empty, the
\* first id call returns the value of the first configured header name
\* present in the request, as it is, and a generated ID when none is
\* present.
C12_InternalTrustsConfiguredHeader ==
  (/\ ~server.opts.isExternal
   /\ \A n \in DOMAIN headers : headers[n] # ""
   /\ idReturned # <<>>) =>
    IF FirstPresent # 0
      THEN idReturned[1].value = StringValue(PresentValue)
      ELSE /\ idReturned[1].generated
           /\ idReturned[1].value.text \in RandomIDs

\* C13: in external mode a request is constructed whatever the case of the
\* configured names; with a configured name present its ID is the base64
\* sha1 of that header's value, a hyphen and a generated suffix, never the
\* header value itself; with none present the ID is generated by the first
\* id call.
C13_ExternalHashesFirstPresent ==
  server.opts.isExternal =>
    IF FirstPresent # 0
      THEN /\ alive
           /\ impl.id.text \in
                {sha1_base64(PresentValue) \o "-" \o r : r \in RandomIDs}
           /\ impl.id.text # PresentValue
      ELSE idReturned # <<>> =>
             /\ idReturned[1].generated
             /\ idReturned[1].value.text \in RandomIDs

\* C14: every id call on a request returns the value the first id call
\* returned, and that value stays the memoized one.
C14_IdMemoized ==
  idReturned # <<>> =>
    /\ idReturned[Len(idReturned)].value = idReturned[1].value
    /\ impl.id = idReturned[1].value

\* An id call before and an id call after raw, body, urlObject and accept
\* were used, the first having generated the ID.
C14_Witness ==
  /\ Len(idReturned) = 2
  /\ idReturned[1].generated
  /\ idReturned[1].seen = {}
  /\ idReturned[2].seen = {"raw", "body", "urlObject", "accept"}
  /\ idReturned[2].value = idReturned[1].value

\* C15: the URL is parsed at most once, every urlObject call returns the
\* one memoized object, and every query call returns its query component.
C15_UrlMemoized ==
  /\ Cardinality({k \in 1..Len(objects) : objects[k].kind = "Url"}) <= 1
  /\ \A x \in urlReturned :
       /\ x.ref = impl.url
       /\ x.query = objects[impl.url.id].value.query
       /\ x.query = url_parse(url).query

\* urlObject and query calls that parsed, and later ones that did not, on a
\* URL with a query.
C15_Witness ==
  /\ \E x \in urlReturned : x.op = "urlObject" /\ x.parsed
  /\ \E x \in urlReturned : x.op = "urlObject" /\ ~x.parsed
  /\ \E x \in urlReturned : x.op = "query" /\ ~x.parsed /\ x.query # {}

\* What a holder of a memoized ID reads: the text, which for the scratch
\* buffer is its present contents.
IdText(v) == IF v.kind = "buffer" THEN toString_base64(scratch) ELSE v.text

\* The object a reference leads to.
Deref(ref) ==
  IF ref.kind \in {"Url", "Accepts"} THEN objects[ref.id]
  ELSE IF ref.kind \in {"function", "promise"} THEN promises[FutureOf(ref)]
  ELSE ref

\* What a request shows of its memoized views and of its body gate.
View(i) ==
  [id |-> IF Truthy(i.id) THEN IdText(i.id) ELSE "",
   url |-> i.url, urlObject |-> Deref(i.url),
   accept |-> i.accept, accepts |-> Deref(i.accept),
   body |-> i.body, future |-> Deref(i.body),
   gate |-> i.getBodyFn]

\* C16: an accessor call on one of two requests leaves the memoized id,
\* url, accept and body future and the body gate of the other request as
\* they were.
C16_RequestsIsolated ==
  [][\A k \in 1..Len(others) : \A l \in 1..Len(others) :
       (k # l /\ OtherCall(k)) => View(others[l].impl)' = View(others[l].impl)]_vars

\* Both requests have generated their IDs through the scratch buffer and
\* hold different ones, both have parsed their URL and negotiated, both
\* hold a body future, and only the second has had raw read.
C16_Witness ==
  /\ Truthy(others[1].impl.id) /\ Truthy(others[2].impl.id)
  /\ others[1].impl.id # others[2].impl.id
  /\ IsSet(others[1].impl.url) /\ IsSet(others[2].impl.url)
  /\ IsSet(others[1].impl.accept) /\ IsSet(others[2].impl.accept)
  /\ IsSet(others[1].impl.body) /\ IsSet(others[2].impl.body)
  /\ others[1].impl.getBodyFn.kind = "collect"
  /\ others[2].impl.getBodyFn.kind = "disabled"

\* The transactions a call of match.execute is to be inside of: one for
\* each run of the middleware, none for an action flagged noTransaction.
Wraps ==
  IF match.controller[match.name].noTransaction THEN 0
  ELSE Count(txLog, "processView")

\* The view run once inside n transactions, each begun before it and
\* committed after its success or rolled back after its failure.
RECURSIVE Bracket(_, _)
Bracket(n, o) ==
  IF n = 0 THEN <<IF o = "ok" THEN "view" ELSE "view failed">>
  ELSE <<"begin">> \o Bracket(n - 1, o)
         \o <<IF o = "ok" THEN "commit" ELSE "rollback">>

\* C17: processView leaves the match of an action flagged noTransaction as
\* it is and replaces the execute of any other match, leaving the rest of
\* the match alone; every call of match.execute runs the view exactly once,
\* inside a transaction begun before it and committed on success or rolled
\* back on failure when the middleware has wrapped it, and bare when not.
C17_TransactionWrapping ==
  [][/\ txLog' = Append(txLog, "processView") =>
          IF match.controller[match.name].noTransaction
            THEN match' = match
            ELSE /\ match'.execute # match.execute
                 /\ match'.controller = match.controller
                 /\ match'.name = match.name
     /\ (Len(txLog') > Len(txLog) /\ txLog'[Len(txLog) + 1] = "execute") =>
          /\ match' = match
          /\ \E o \in Outcomes :
               txLog' = txLog \o <<"execute">> \o Bracket(Wraps, o)]_vars

\* The middleware has wrapped a match once, and two calls of its execute
\* have run the view, one inside a transaction that was committed and one
\* inside a transaction that was rolled back.
C17_Witness ==
  /\ ~match.controller[match.name].noTransaction
  /\ match.execute.kind = "transaction"
  /\ Count(txLog, "processView") = 1
  /\ Head(txLog) = "processView"
  /\ Count(txLog, "execute") = 2
  /\ Count(txLog, "rollback") = 1
  /\ Count(txLog, "commit") = 1
  /\ Count(txLog, "view") = 1
  /\ Count(txLog, "view failed") = 1

====
